---- MODULE Spec2Model ----
(***************************************************************************)
(* AlzheimersDetectionSystem: the React component that simulates a voice-  *)
(* biomarker analysis.  The model holds the component's state hooks, the   *)
(* browser timers its handlers create, and the arithmetic of the analysis  *)
(* (random generators, weighted score, risk tier, confidence, indicators). *)
(* Numbers the code computes in binary64 are computed here in binary64.    *)
(***************************************************************************)
EXTENDS Integers, Sequences, FiniteSets

\* ---- evaluation order: Only({ e(x) : x \in {v} }) is e(v), with v evaluated once
Only(S) == CHOOSE x \in S : TRUE

\* ---- natural numbers wider than 32 bits: little-endian limbs, no leading zero limb
LimbBase == 2^15
LimbBits == CHOOSE k \in 1..30 : 2^k = LimbBase

Limb(a, i) == IF i <= Len(a) THEN a[i] ELSE 0

RECURSIVE Pow2(_)
Pow2(k) == IF k = 0 THEN 1 ELSE 2 * Pow2(k - 1)

BigNorm(a) ==
    Only({ SubSeq(x, 1, CHOOSE n \in 0..Len(x) :
                            /\ n = 0 \/ x[n] # 0
                            /\ \A m \in (n + 1)..Len(x) : x[m] = 0) : x \in {a} })

RECURSIVE BigOfInt(_)
BigOfInt(n) == IF n = 0 THEN <<>> ELSE <<n % LimbBase>> \o BigOfInt(n \div LimbBase)

RECURSIVE BigToInt(_)
BigToInt(a) == IF a = <<>> THEN 0 ELSE a[1] + LimbBase * BigToInt(Tail(a))

RECURSIVE BigAddFrom(_, _, _, _)
BigAddFrom(a, b, i, carry) ==
    IF i > Len(a) /\ i > Len(b)
    THEN (IF carry = 0 THEN <<>> ELSE <<carry>>)
    ELSE Only({ <<t % LimbBase>> \o BigAddFrom(a, b, i + 1, t \div LimbBase) :
                t \in {Limb(a, i) + Limb(b, i) + carry} })

BigAdd(a, b) == Only({ BigAddFrom(x[1], x[2], 1, 0) : x \in {<<a, b>>} })

RECURSIVE BigSubFrom(_, _, _, _)
BigSubFrom(a, b, i, borrow) ==
    IF i > Len(a) THEN <<>>
    ELSE Only({ IF t < 0 THEN <<t + LimbBase>> \o BigSubFrom(a, b, i + 1, 1)
                         ELSE <<t>> \o BigSubFrom(a, b, i + 1, 0) :
                t \in {Limb(a, i) - Limb(b, i) - borrow} })

\* a - b, for a >= b
BigSub(a, b) == Only({ BigNorm(BigSubFrom(x[1], x[2], 1, 0)) : x \in {<<a, b>>} })

RECURSIVE BigCmpFrom(_, _, _)
BigCmpFrom(a, b, i) ==
    IF i = 0 THEN 0
    ELSE IF a[i] # b[i] THEN (IF a[i] < b[i] THEN -1 ELSE 1)
    ELSE BigCmpFrom(a, b, i - 1)

\* -1, 0, 1 as a < b, a = b, a > b
BigCmp(a, b) ==
    Only({ IF Len(x[1]) # Len(x[2]) THEN (IF Len(x[1]) < Len(x[2]) THEN -1 ELSE 1)
           ELSE BigCmpFrom(x[1], x[2], Len(x[1])) : x \in {<<a, b>>} })

RECURSIVE BigMulSmallFrom(_, _, _, _)
BigMulSmallFrom(a, m, i, carry) ==
    IF i > Len(a) THEN (IF carry = 0 THEN <<>> ELSE <<carry>>)
    ELSE Only({ <<t % LimbBase>> \o BigMulSmallFrom(a, m, i + 1, t \div LimbBase) :
                t \in {a[i] * m + carry} })

\* a * m, for 0 <= m < LimbBase
BigMulSmall(a, m) ==
    Only({ IF x[2] = 0 THEN <<>> ELSE BigMulSmallFrom(x[1], x[2], 1, 0) : x \in {<<a, m>>} })

\* a * 2^k
BigShl(a, k) ==
    Only({ IF x = <<>> THEN <<>>
           ELSE [i \in 1..(k \div LimbBits) |-> 0] \o BigMulSmall(x, Pow2(k % LimbBits)) :
           x \in {a} })

RECURSIVE BitLenSmall(_)
BitLenSmall(n) == IF n = 0 THEN 0 ELSE 1 + BitLenSmall(n \div 2)

BitLen(a) ==
    Only({ IF x = <<>> THEN 0 ELSE LimbBits * (Len(x) - 1) + BitLenSmall(x[Len(x)]) :
           x \in {a} })

Bit(a, j) == (Limb(a, (j \div LimbBits) + 1) \div Pow2(j % LimbBits)) % 2

\* short division from limb i down, r the remainder of the limbs above:
\* <<quotient limbs 1..i, remainder>>
RECURSIVE BigDivSmallFrom(_, _, _, _)
BigDivSmallFrom(a, d, i, r) ==
    IF i = 0 THEN << <<>>, r >>
    ELSE Only({ Only({ << Append(rest[1], t \div d), rest[2] >> :
                       rest \in {BigDivSmallFrom(a, d, i - 1, t % d)} }) :
                t \in {r * LimbBase + a[i]} })

\* <<a \div d, a % d>>, for 0 < d < LimbBase (the remainder an integer)
BigDivModSmall(a, d) ==
    Only({ << BigNorm(qr[1]), qr[2] >> :
           qr \in { Only({ BigDivSmallFrom(x[1], x[2], Len(x[1]), 0) : x \in {<<a, d>>} }) } })

\* a \div 2^k
BigShr(a, k) ==
    Only({ IF Len(x) <= k \div LimbBits THEN <<>>
           ELSE BigDivModSmall(SubSeq(x, (k \div LimbBits) + 1, Len(x)),
                               Pow2(k % LimbBits))[1] : x \in {a} })

\* one step of long division: bit of the dividend shifted into st = <<quotient, remainder>>
BigDivStep(b, bit, st) ==
    Only({ IF BigCmp(r2, b) >= 0
           THEN << BigAdd(BigMulSmall(st[1], 2), <<1>>), BigSub(r2, b) >>
           ELSE << BigMulSmall(st[1], 2), r2 >> :
           r2 \in {BigAdd(BigMulSmall(st[2], 2), BigOfInt(bit))} })

\* long division over the n bits of a from bit j down
RECURSIVE BigDivBits(_, _, _, _, _)
BigDivBits(a, b, j, n, st) ==
    IF n = 0 THEN st
    ELSE Only({ BigDivBits(a, b, j - 1, n - 1, st2) :
                st2 \in {BigDivStep(b, Bit(a, j), st)} })

\* ... over the limbs of a from limb i down
RECURSIVE BigDivLimbs(_, _, _, _)
BigDivLimbs(a, b, i, st) ==
    IF i = 0 THEN st
    ELSE Only({ BigDivLimbs(a, b, i - 1, st2) :
                st2 \in {BigDivBits(a, b, i * LimbBits - 1, LimbBits, st)} })

\* <<a \div b, a % b>>, for b > 0
BigDivMod(a, b) ==
    Only({ BigDivLimbs(x[1], x[2], Len(x[1]), << <<>>, <<>> >>) : x \in {<<a, b>>} })

\* ---- IEEE-754 binary64 (the JS Number type), non-negative finite values.
\* Every double that calculateWeightedScore meets is 0 or at least 2^-4 (the
\* smallest weight is 0.10), so it is a multiple of 2^-(4+52): a double x is
\* held as the natural number x * 2^FracBits.
SignificandBits == 52 + 1
FracBits == SignificandBits + 3

\* q * 2^s + low + rem/d rounded to a multiple of 2^s, ties to even (qlow = <<q, low>>)
RoundAt(qlow, s, rem, d) ==
    Only({ BigShl(IF cmp > 0 \/ (cmp = 0 /\ Bit(qlow[1], 0) = 1)
                  THEN BigAdd(qlow[1], <<1>>) ELSE qlow[1], s) :
           cmp \in {BigCmp(BigMulSmall(BigAdd(BigMulSmall(d, qlow[2]), rem), 2),
                           BigShl(d, s))} })

\* the double nearest to (t + rem/d) * 2^-FracBits, ties to even
\* (t a natural number of at most SignificandBits + LimbBits - 1 bits)
RoundToDouble(t, rem, d) ==
    Only({ RoundAt(BigDivModSmall(x[1], Pow2(x[4])), x[4], x[2], x[3]) :
           x \in { Only({ << y[1], y[2], y[3],
                             IF BitLen(y[1]) > SignificandBits
                             THEN BitLen(y[1]) - SignificandBits ELSE 0 >> :
                          y \in {<<t, rem, d>>} }) } })

\* the double a decimal literal num/den denotes
DoubleOfDecimal(num, den) ==
    Only({ RoundToDouble(qr[1], qr[2], BigOfInt(den)) :
           qr \in {BigDivMod(BigShl(BigOfInt(num), FracBits), BigOfInt(den))} })

\* v * w, v a small integer
DoubleMulInt(v, w) == RoundToDouble(BigMulSmall(w, v), <<>>, <<1>>)
DoubleAdd(a, b) == RoundToDouble(BigAdd(a, b), <<>>, <<1>>)
DoubleDiv(a, b) ==
    Only({ RoundToDouble(x[1], x[2], x[3]) :
           x \in { Only({ << qr[1], qr[2], y >> :
                          qr \in {BigDivMod(BigShl(a, FracBits), y)} }) : y \in {b} } })

\* Math.round: floor(x + 1/2)
MathRound(a) == BigToInt(BigShr(BigAdd(a, BigShl(<<1>>, FracBits - 1)), FracBits))

\* ---- the random source
\* Math.random() returns a double in [0, 1): here a point k / RandDen of a grid,
\* named by its numerator k in 0..RandDen-1.  The grid is dyadic, so the products
\* and sums of lines 162 and 169 are exact in binary64 and in the integer
\* arithmetic below alike.
RandDen == 128

Max(a, b) == IF a >= b THEN a ELSE b
Min(a, b) == IF a <= b THEN a ELSE b

\* Math.round(num / den) for num >= 0, den > 0: floor(x + 1/2)
RoundRatio(num, den) == (2 * num + den) \div (2 * den)

RECURSIVE BigPow(_, _)
BigPow(b, e) == IF e = 0 THEN <<1>> ELSE BigMulSmall(BigPow(b, e - 1), b)

\* Math.pow(k / RandDen, 0.7) to the grid's resolution: the largest r with
\* (r / RandDen)^10 <= (k / RandDen)^7; k <= r < RandDen for k < RandDen
MathPow(k) ==
    Only({ CHOOSE r \in k..RandDen :
               /\ BigCmp(BigPow(r, 10), rhs) <= 0
               /\ BigCmp(BigPow(r + 1, 10), rhs) > 0 :
           rhs \in {BigMulSmall(BigMulSmall(BigMulSmall(BigPow(k, 7), RandDen), RandDen),
                                RandDen)} })

\* the values of Math.random() explored: `levels` numerators from 0 to RandDen - 1
Draws(levels) == {(j * (RandDen - 1)) \div (levels - 1) : j \in 0..(levels - 1)}

\* how many values of Math.random() are explored for the catalog's 8 draws and
\* for the 9 draws after them (the confidence's and the indicators')
CatalogLevels == 7
TailLevels == 3

MathPowOf == [k \in Draws(CatalogLevels) |-> MathPow(k)]

\* ---- the generators (u: the numerator Math.random() returned)
\* generateWeightedValue scaling the draw by max instead of (max - min)
generateWeightedValueMutant(min, max, u) ==
    RoundRatio(min * RandDen + MathPowOf[u] * max, RandDen)

generateWeightedValue(min, max, u) ==
    LET raw == MathPowOf[u]
    IN  RoundRatio(min * RandDen + raw * (max - min), RandDen)

\* generateConsistentValue without the upper clamp of line 168
generateConsistentValueMutant(baseValue, variation, u) ==
    LET min == Max(0, baseValue - variation)
        max == baseValue + variation
    IN  RoundRatio(min * RandDen + u * (max - min), RandDen)

generateConsistentValue(baseValue, variation, u) ==
    LET min == Max(0, baseValue - variation)
        max == Min(100, baseValue + variation)
    IN  RoundRatio(min * RandDen + u * (max - min), RandDen)

\* ---- the biomarker catalog of analyzeAudio (weight in hundredths: 0.15 is 15)
BiomarkerNames ==
    << "phonemeArticulation", "pauseFrequency", "lexicalDiversity",
       "speechRateConsistency", "semanticCoherenceBio", "prosodicVariation",
       "voiceTremor", "wordFindingDelay" >>
BiomarkerWeight == << 15, 12, 13, 10, 18, 12, 10, 10 >>
WeightDen       == 10 * 10
BiomarkerDescription == [i \in 1..8 |-> BiomarkerNames[i] \o "Desc"]

Marker(i, value) ==
    [ name        |-> BiomarkerNames[i],
      value       |-> value,
      weight      |-> BiomarkerWeight[i],
      description |-> BiomarkerDescription[i] ]

\* lines 57-106, u[1..8] the eight draws in call order
Biomarkers(u) ==
    << Marker(1, generateWeightedValue(65, 95, u[1])),
       Marker(2, generateWeightedValue(60, 90, u[2])),
       Marker(3, generateWeightedValue(70, 95, u[3])),
       Marker(4, generateWeightedValue(65, 90, u[4])),
       Marker(5, generateWeightedValue(60, 95, u[5])),
       Marker(6, generateWeightedValue(70, 90, u[6])),
       Marker(7, generateWeightedValue(75, 95, u[7])),
       Marker(8, generateWeightedValue(60, 90, u[8])) >>

\* the double each weight literal denotes
WeightDouble ==
    [w \in {BiomarkerWeight[i] : i \in 1..8} |-> DoubleOfDecimal(w, WeightDen)]

\* lines 178-179: one marker added to st = <<weightedSum, totalWeight>>
addMarker(st, marker) ==
    Only({ << DoubleAdd(st[1], DoubleMulInt(marker.value, w)), DoubleAdd(st[2], w) >> :
           w \in {WeightDouble[marker.weight]} })

\* the forEach of line 177, from marker i on
RECURSIVE forEachMarker(_, _, _)
forEachMarker(biomarkers, i, st) ==
    IF i > Len(biomarkers) THEN st
    ELSE Only({ forEachMarker(biomarkers, i + 1, st2) :
                st2 \in {addMarker(st, biomarkers[i])} })

\* calculateWeightedScore dividing by the number of markers instead of totalWeight
calculateWeightedScoreMutant(biomarkers) ==
    Only({ MathRound(DoubleDiv(st[1], DoubleOfDecimal(Len(biomarkers), 1))) :
           st \in { Only({ forEachMarker(b, 1, << <<>>, <<>> >>) : b \in {biomarkers} }) } })

calculateWeightedScore(biomarkers) ==
    Only({ MathRound(DoubleDiv(st[1], st[2])) :
           st \in { Only({ forEachMarker(b, 1, << <<>>, <<>> >>) : b \in {biomarkers} }) } })

\* ---- lines 111-151: what the timeout callback derives from the catalog
\* riskOf with the first threshold taken inclusively
riskOfMutant(weightedScore) ==
    IF weightedScore <= 70 THEN "High"
    ELSE IF weightedScore < 85 THEN "Moderate"
    ELSE "Low"

riskOf(weightedScore) ==
    IF weightedScore < 70 THEN "High"
    ELSE IF weightedScore < 85 THEN "Moderate"
    ELSE "Low"

confidenceBase == 85
confidenceVariation == 10

\* lines 124-126 and 147, in units of 1 / (2 * RandDen)
confidenceOf(u) ==
    LET den == 2 * RandDen
        raw == confidenceBase * den + (2 * u * confidenceVariation - RandDen * confidenceVariation)
    IN  RoundRatio(Min(98 * den, Max(80 * den, raw)), den)

IndicatorNames ==
    << "speechClarity", "wordRecall", "sentenceStructure", "pausePatterns",
       "prosody", "articulationRate", "voiceQuality", "semanticCoherence" >>
IndicatorVariation == << 10, 15, 12, 8, 10, 7, 9, 14 >>

\* lines 129-138, u[1..8] the eight draws in call order
indicatorsOf(weightedScore, u) ==
    [ speechClarity     |-> generateConsistentValue(weightedScore, IndicatorVariation[1], u[1]),
      wordRecall        |-> generateConsistentValue(weightedScore, IndicatorVariation[2], u[2]),
      sentenceStructure |-> generateConsistentValue(weightedScore, IndicatorVariation[3], u[3]),
      pausePatterns     |-> generateConsistentValue(weightedScore, IndicatorVariation[4], u[4]),
      prosody           |-> generateConsistentValue(weightedScore, IndicatorVariation[5], u[5]),
      articulationRate  |-> generateConsistentValue(weightedScore, IndicatorVariation[6], u[6]),
      voiceQuality      |-> generateConsistentValue(weightedScore, IndicatorVariation[7], u[7]),
      semanticCoherence |-> generateConsistentValue(weightedScore, IndicatorVariation[8], u[8]) ]

\* detectedOf reusing the High tier's threshold
detectedOfMutant(weightedScore) == weightedScore < 70

detectedOf(weightedScore) == weightedScore < 78

\* resultOf with the confidence drawn around the score
resultOfMutant(biomarkers, uc, ui) ==
    Only({ [ score      |-> x[2],
             risk       |-> riskOf(x[2]),
             confidence |-> generateConsistentValue(x[2], confidenceVariation, uc),
             indicators |-> indicatorsOf(x[2], ui),
             biomarkers |-> x[1],
             detected   |-> detectedOf(x[2]) ] :
           x \in { Only({ << b, calculateWeightedScore(b) >> : b \in {biomarkers} }) } })

\* lines 108-151: the result built from a catalog, the confidence draw uc and the
\* indicator draws ui
resultOf(biomarkers, uc, ui) ==
    Only({ [ score      |-> x[2],
             risk       |-> riskOf(x[2]),
             confidence |-> confidenceOf(uc),
             indicators |-> indicatorsOf(x[2], ui),
             biomarkers |-> x[1],
             detected   |-> detectedOf(x[2]) ] :
           x \in { Only({ << b, calculateWeightedScore(b) >> : b \in {biomarkers} }) } })

\* ---- the draws of one run of the callback: 17 calls of Math.random(), the
\* catalog's 8, the confidence's, the indicators' 8
\* the runs explored: one value for the catalog's draws, one for the draws after
RandomStreams ==
    { [n \in 1..17 |-> IF n <= 8 THEN b ELSE t] :
        b \in Draws(CatalogLevels), t \in Draws(TailLevels) }

\* lines 56-151 for the draws s
resultOfStream(s) ==
    resultOf(Biomarkers(SubSeq(s, 1, 8)), s[9], SubSeq(s, 10, 17))

AnalysisOf == [s \in RandomStreams |-> resultOfStream(s)]

\* ---- the component's state (the useState hooks of lines 38-45) and its timers
VARIABLES
    isRecording,        \* useState(false)
    recordingTime,      \* useState(0)
    analysis,           \* useState<AnalysisResult | null>(null)
    uploadedFile,       \* useState<File | null>(null)
    isProcessing,       \* useState(false)
    error,              \* useState<string | null>(null)
    recordingDuration,  \* useState(30)
    timeouts,           \* the pending setTimeout callbacks of analyzeAudio, oldest first:
                        \* each the number of the invocation that set it
    intervals,          \* the live setInterval timers of startRecording: each with the
                        \* recordingDuration its callback closed over
    invocations,        \* history: how many times analyzeAudio has been invoked
    recordings,         \* history: how many times startRecording has been invoked
    published,          \* history: the invocations whose callback has run, in order
    draws               \* history: what Math.random() returned in the last callback

vars == << isRecording, recordingTime, analysis, uploadedFile, isProcessing, error,
           recordingDuration, timeouts, intervals, invocations, recordings,
           published, draws >>

uiState == << isRecording, recordingTime, analysis, uploadedFile, isProcessing, error,
              recordingDuration >>

null == [null |-> TRUE]

\* bounds of the exploration
MaxInvocations == 2
MaxRecordings == 1

\* the files the file input can hand over; a media type is its characters
AudioType == << "a", "u", "d", "i", "o", "/", "w", "a", "v" >>
TextType  == << "t", "e", "x", "t", "/", "p", "l", "a", "i", "n" >>
Files == { [name |-> "sample.wav", type |-> AudioType],
           [name |-> "notes.txt",  type |-> TextType] }

\* String.prototype.startsWith
startsWith(str, prefix) ==
    Len(str) >= Len(prefix) /\ SubSeq(str, 1, Len(prefix)) = prefix

Init ==
    /\ isRecording = FALSE
    /\ recordingTime = 0
    /\ analysis = null
    /\ uploadedFile = null
    /\ isProcessing = FALSE
    /\ error = null
    /\ recordingDuration = 30
    /\ timeouts = << >>
    /\ intervals = {}
    /\ invocations = 0
    /\ recordings = 0
    /\ published = << >>
    /\ draws = << >>

\* analyzeAudio clearing the timeouts set before it
analyzeAudioMutant ==
    /\ invocations < MaxInvocations
    /\ isProcessing' = TRUE
    /\ invocations' = invocations + 1
    /\ timeouts' = << invocations + 1 >>

\* lines 48-52 and 155: analyzeAudio up to its setTimeout; the callback is TimeoutFires
analyzeAudio ==
    /\ invocations < MaxInvocations
    /\ isProcessing' = TRUE
    /\ invocations' = invocations + 1
    /\ timeouts' = Append(timeouts, invocations + 1)

\* lines 52-155: the callback of the oldest pending timeout (equal delays run in the
\* order they were set); React applies setAnalysis and setIsProcessing together
TimeoutFires ==
    /\ timeouts # << >>
    /\ \E s \in RandomStreams :
          /\ analysis' = AnalysisOf[s]
          /\ draws' = s
    /\ isProcessing' = FALSE
    /\ timeouts' = Tail(timeouts)
    /\ published' = Append(published, Head(timeouts))
    /\ UNCHANGED << isRecording, recordingTime, uploadedFile, error, recordingDuration,
                    intervals, invocations, recordings >>

\* handleFileUpload testing only that a file was chosen
handleFileUploadMutant(file) ==
    \/ /\ file # null
       /\ uploadedFile' = file
       /\ analyzeAudio
       /\ UNCHANGED << isRecording, recordingTime, analysis, error, recordingDuration,
                       intervals, recordings, published, draws >>
    \/ /\ file = null
       /\ error' = [message |-> "invalidAudioFile"]
       /\ UNCHANGED << isRecording, recordingTime, analysis, uploadedFile, isProcessing,
                       recordingDuration, timeouts, intervals, invocations, recordings,
                       published, draws >>

\* lines 185-193, file = event.target.files?.[0]
handleFileUpload(file) ==
    \/ /\ file # null
       /\ startsWith(file.type, << "a", "u", "d", "i", "o", "/" >>)
       /\ uploadedFile' = file
       /\ analyzeAudio
       /\ UNCHANGED << isRecording, recordingTime, analysis, error, recordingDuration,
                       intervals, recordings, published, draws >>
    \/ /\ ~(file # null /\ startsWith(file.type, << "a", "u", "d", "i", "o", "/" >>))
       /\ error' = [message |-> "invalidAudioFile"]
       /\ UNCHANGED << isRecording, recordingTime, analysis, uploadedFile, isProcessing,
                       recordingDuration, timeouts, intervals, invocations, recordings,
                       published, draws >>

HandleFileUpload == \E file \in Files \cup {null} : handleFileUpload(file)

\* lines 212-216
stopRecording ==
    /\ isRecording' = FALSE
    /\ analyzeAudio

\* lines 195-210, the click on the record button (rendered while not recording,
\* lines 288-295); the interval's callback is IntervalTick
StartRecording ==
    /\ ~isRecording
    /\ recordings < MaxRecordings
    /\ isRecording' = TRUE
    /\ recordingTime' = 0
    /\ recordings' = recordings + 1
    /\ intervals' = intervals \cup {[id |-> recordings + 1, recordingDuration |-> recordingDuration]}
    /\ UNCHANGED << analysis, uploadedFile, isProcessing, error, recordingDuration,
                    timeouts, invocations, published, draws >>

\* the click on the stop button (rendered while recording, lines 308-314)
StopRecording ==
    /\ isRecording
    /\ stopRecording
    /\ UNCHANGED << recordingTime, analysis, uploadedFile, error, recordingDuration,
                    intervals, recordings, published, draws >>

\* lines 199-208: one run of an interval's callback
intervalTick(timer) ==
    \/ /\ recordingTime >= timer.recordingDuration
       /\ intervals' = intervals \ {timer}
       /\ stopRecording
       /\ recordingTime' = timer.recordingDuration
       /\ UNCHANGED << analysis, uploadedFile, error, recordingDuration, recordings,
                       published, draws >>
    \/ /\ recordingTime < timer.recordingDuration
       /\ recordingTime' = recordingTime + 1
       /\ UNCHANGED << isRecording, analysis, uploadedFile, isProcessing, error,
                       recordingDuration, timeouts, intervals, invocations, recordings,
                       published, draws >>

IntervalTick == \E timer \in intervals : intervalTick(timer)

Next ==
    \/ HandleFileUpload
    \/ StartRecording
    \/ StopRecording
    \/ IntervalTick
    \/ TimeoutFires

Spec == Init /\ [][Next]_vars

\* ---- the duration select (lines 272-283)
\* the value attribute of each option of the select: the number's decimal digits
DurationOptions ==
    { << "1", "5" >>, << "3", "0" >>, << "6", "0" >>, << "9", "0" >> }

DigitValue ==
    [c \in {"0", "1", "2", "3", "4", "5", "6", "7", "8", "9"} |->
        CHOOSE d \in 0..9 : << "0", "1", "2", "3", "4", "5", "6", "7", "8", "9" >>[d + 1] = c]

\* parseInt on a string of decimal digits
RECURSIVE parseInt(_)
parseInt(str) ==
    IF str = << >> THEN 0
    ELSE 10 * parseInt(SubSeq(str, 1, Len(str) - 1)) + DigitValue[str[Len(str)]]

\* lines 228-230, value = e.target.value
handleDurationChange(value) ==
    /\ recordingDuration' = parseInt(value)
    /\ UNCHANGED << isRecording, recordingTime, analysis, uploadedFile, isProcessing,
                    error, timeouts, intervals, invocations, recordings, published,
                    draws >>

\* a choice in the select, which is disabled while recording (line 277)
HandleDurationChange ==
    /\ ~isRecording
    /\ \E value \in DurationOptions : handleDurationChange(value)

\* the component with its duration select
SpecDuration == Init /\ [][Next \/ HandleDurationChange]_vars

\* the callbacks of pending timeouts run: the page's event loop runs a timer's
\* callback once its delay has passed
FairSpec == Spec /\ WF_vars(TimeoutFires)

\* ---- the arithmetic of lines 108-151 on given catalogs: the catalog's first four
\* values a and its last four a + d, the random source stubbed to return 0
MaxSkew == 1

TestValues ==
    { [i \in 1..8 |-> IF i <= 4 THEN a ELSE a + d] :
        a \in 0..100, d \in 0..MaxSkew } \cap [1..8 -> 0..100]

\* a catalog of lines 57-106 with the given values
catalogOf(values) == [i \in 1..8 |-> Marker(i, values[i])]

CatalogAnalysisOf ==
    [v \in TestValues |-> resultOf(catalogOf(v), 0, [i \in 1..8 |-> 0])]

\* lines 108-153 on a given catalog
AnalyzeCatalog ==
    /\ \E v \in TestValues : analysis' = CatalogAnalysisOf[v]
    /\ UNCHANGED << isRecording, recordingTime, uploadedFile, isProcessing, error,
                    recordingDuration, timeouts, intervals, invocations, recordings,
                    published, draws >>

SpecCatalog == Init /\ [][AnalyzeCatalog]_vars

\* ---- what the page shows of the result
\* the results pane showing the stored result while the spinner is up
AnalysisResultsMutant == analysis

\* lines 346-351: the result the results pane renders (the spinner replaces the pane
\* while isProcessing)
AnalysisResults == IF isProcessing THEN null ELSE analysis

\* ---- the properties checked

\* the fields of an AnalysisResult
ResultFields == {"score", "risk", "confidence", "indicators", "biomarkers", "detected"}

\* C1: the risk of a result is exactly one of High, Moderate and Low, fixed by its
\* score in 0..100: High below 70, Moderate from 70 to 84, Low from 85 up.
RiskPartitionsScore ==
    analysis # null =>
        /\ analysis.score \in 0..100
        /\ Cardinality({r \in {"High", "Moderate", "Low"} : analysis.risk = r}) = 1
        /\ (analysis.score < 70) <=> (analysis.risk = "High")
        /\ (70 <= analysis.score /\ analysis.score < 85) <=> (analysis.risk = "Moderate")
        /\ (analysis.score >= 85) <=> (analysis.risk = "Low")

\* a result at the lower edge of the Moderate tier
ModerateAtSeventy ==
    analysis # null /\ analysis.score = 70 /\ analysis.risk = "Moderate"

\* C2: in every result the callback of analyzeAudio stores, detected is true exactly
\* when the score is below 78, in whatever tier the score lies.
DetectedIffBelow78 ==
    analysis # null => (analysis.detected <=> analysis.score < 78)

\* a stored result of the Moderate tier that is detected
ModerateAndDetected ==
    /\ published # << >>
    /\ analysis # null
    /\ analysis.risk = "Moderate"
    /\ analysis.detected

\* the weighted mean of a catalog, rounded half up, in exact arithmetic
RECURSIVE SumValueWeight(_, _)
SumValueWeight(biomarkers, i) ==
    IF i > Len(biomarkers) THEN 0
    ELSE biomarkers[i].value * biomarkers[i].weight + SumValueWeight(biomarkers, i + 1)

RECURSIVE SumWeight(_, _)
SumWeight(biomarkers, i) ==
    IF i > Len(biomarkers) THEN 0
    ELSE biomarkers[i].weight + SumWeight(biomarkers, i + 1)

RoundedMean(biomarkers) ==
    RoundRatio(SumValueWeight(biomarkers, 1), SumWeight(biomarkers, 1))

\* C3: the score of a result is round(sum(value * weight) / sum(weight)) of its
\* catalog, and an integer in 0..100.
ScoreIsRoundedMean ==
    analysis # null =>
        /\ analysis.score = RoundedMean(analysis.biomarkers)
        /\ analysis.score \in 0..100

\* a result whose score is one below the rounded mean of its catalog
ScoreBelowRoundedMean ==
    analysis # null /\ analysis.score = RoundedMean(analysis.biomarkers) - 1

\* C4: while isProcessing is true the page shows no result, and a result the page
\* shows is a complete one: all six fields, as one run of the callback built them.
ProcessingHidesResult ==
    /\ isProcessing => AnalysisResults = null
    /\ AnalysisResults # null =>
          /\ DOMAIN AnalysisResults = ResultFields
          /\ AnalysisResults = AnalysisOf[draws]

\* a second analysis is running: the result of the first is stored and not shown
StoredResultHidden ==
    isProcessing /\ analysis # null /\ AnalysisResults = null

\* C5: while the timeout of any invocation of analyzeAudio is pending, isProcessing
\* is true.
ProcessingWhilePending ==
    timeouts # << >> => isProcessing

\* a timeout is pending and isProcessing is false
PendingAndIdle ==
    timeouts # << >> /\ ~isProcessing

\* invocation n's callback has run
Published(n) == \E i \in DOMAIN published : published[i] = n

\* C6: every invocation of analyzeAudio is published, once; a step that publishes
\* takes the oldest pending invocation and stores the result one run of the callback
\* built, whatever was stored and whatever happened since the invocation; the stored
\* result changes in no other step.
EveryInvocationPublishes ==
    /\ \A n \in 1..MaxInvocations : (invocations >= n) ~> Published(n)
    /\ [](\A i, j \in DOMAIN published : published[i] = published[j] => i = j)
    /\ [][ /\ published' # published =>
                /\ timeouts # << >>
                /\ published' = Append(published, Head(timeouts))
                /\ analysis' = AnalysisOf[draws']
           /\ analysis' # analysis => published' # published ]_vars

\* the first invocation's result was stored after the second invocation began: the
\* second set isProcessing, the first's callback has reset it
LateResultApplied ==
    /\ published = << 1 >>
    /\ timeouts = << 2 >>
    /\ ~isProcessing
    /\ analysis = AnalysisOf[draws]

\* C7: at most one timeout of analyzeAudio is pending, and a pending timeout is the
\* latest invocation's.
OneAnalysisInFlight ==
    /\ Len(timeouts) <= 1
    /\ \A i \in DOMAIN timeouts : timeouts[i] = invocations

\* two timeouts are pending
TwoAnalysesInFlight == Len(timeouts) = 2

Abs(x) == IF x < 0 THEN -x ELSE x

\* every indicator of the stored result is in 0..100 and within spread[i] of the score
IndicatorsWithin(spread) ==
    analysis # null =>
        /\ DOMAIN analysis.indicators = {IndicatorNames[i] : i \in 1..8}
        /\ \A i \in 1..8 :
              /\ analysis.indicators[IndicatorNames[i]] \in 0..100
              /\ Abs(analysis.indicators[IndicatorNames[i]] - analysis.score) <= spread[i]

\* C8 as stated: every indicator is in 0..100 and within its spread of the score, the
\* spreads 8, 15, 12, 8, 10, 7, 9, 14.
IndicatorsWithinStatedSpread ==
    IndicatorsWithin(<< 8, 15, 12, 8, 10, 7, 9, 14 >>)

\* C8: every indicator is in 0..100 and within its spread of the score, the spreads
\* 10, 15, 12, 8, 10, 7, 9, 14.
IndicatorsWithinSpread ==
    IndicatorsWithin(<< 10, 15, 12, 8, 10, 7, 9, 14 >>)

\* a stored result whose speechClarity is 10 below the score
SpeechClarityTenBelow ==
    /\ published # << >>
    /\ analysis # null
    /\ analysis.score - analysis.indicators.speechClarity = 10

\* the bounds of each biomarker's value in lines 57-106
ValueBounds ==
    << <<65, 95>>, <<60, 90>>, <<70, 95>>, <<65, 90>>, <<60, 95>>, <<70, 90>>,
       <<75, 95>>, <<60, 90>> >>

\* C9: the catalog of every stored result is the 8 fixed biomarkers in the fixed
\* order with the weights 0.15, 0.12, 0.13, 0.10, 0.18, 0.12, 0.10, 0.10, which sum
\* to 1; each value is an integer within its biomarker's bounds, and the bounds lie
\* within 60..95.
CatalogIsFixed ==
    analysis # null =>
        /\ Len(analysis.biomarkers) = 8
        /\ \A i \in 1..8 :
              /\ DOMAIN analysis.biomarkers[i] = {"name", "value", "weight", "description"}
              /\ analysis.biomarkers[i].name =
                    << "phonemeArticulation", "pauseFrequency", "lexicalDiversity",
                       "speechRateConsistency", "semanticCoherenceBio",
                       "prosodicVariation", "voiceTremor", "wordFindingDelay" >>[i]
              /\ analysis.biomarkers[i].description = BiomarkerDescription[i]
              /\ analysis.biomarkers[i].weight = << 15, 12, 13, 10, 18, 12, 10, 10 >>[i]
              /\ analysis.biomarkers[i].value \in ValueBounds[i][1]..ValueBounds[i][2]
              /\ 60 <= ValueBounds[i][1]
              /\ ValueBounds[i][2] <= 95
        /\ SumWeight(analysis.biomarkers, 1) = WeightDen

\* a stored catalog whose values are all at the top of their bounds
ValuesAtUpperBounds ==
    /\ published # << >>
    /\ analysis # null
    /\ \A i \in 1..8 : analysis.biomarkers[i].value = ValueBounds[i][2]

\* C10: the confidence of every stored result is an integer in 80..98, as it is for
\* every draw, and the draws of the catalog, which fix the score, do not change it.
ConfidenceIndependent ==
    analysis # null =>
        /\ analysis.confidence \in 80..98
        /\ \A u \in 0..(RandDen - 1) : confidenceOf(u) \in 80..98
        /\ \A s \in RandomStreams :
              s[9] = draws[9] => AnalysisOf[s].confidence = analysis.confidence

\* a stored result of the High tier with the highest confidence of the draws explored
HighRiskHighConfidence ==
    /\ published # << >>
    /\ analysis # null
    /\ analysis.risk = "High"
    /\ analysis.confidence >= 90

\* the file is one handleFileUpload accepts
isAudio(file) == file # null /\ startsWith(file.type, << "a", "u", "d", "i", "o", "/" >>)

\* C11: handleFileUpload with no file or a file whose type does not start with
\* "audio/" does not invoke analyzeAudio: it sets error and leaves isProcessing, the
\* stored result, uploadedFile and the timers as they were; and no step that sets
\* error invokes analyzeAudio.
InvalidUploadOnlySetsError ==
    [][ /\ \A file \in Files \cup {null} :
              (~isAudio(file) /\ handleFileUpload(file)) =>
                  /\ error' = [message |-> "invalidAudioFile"]
                  /\ UNCHANGED << isProcessing, analysis, uploadedFile, timeouts,
                                  invocations, published, draws, isRecording,
                                  recordingTime, recordingDuration, intervals,
                                  recordings >>
        /\ error' # error => UNCHANGED << isProcessing, analysis, uploadedFile,
                                          timeouts, invocations >> ]_vars

\* an invalid file was chosen while an analysis was pending: the error is set, the
\* analysis still pending, the uploaded file still the valid one
ErrorSetWhileProcessing ==
    /\ error = [message |-> "invalidAudioFile"]
    /\ isProcessing
    /\ invocations = 1
    /\ timeouts = << 1 >>
    /\ uploadedFile # null
    /\ isAudio(uploadedFile)

\* all eight values of the stored catalog are v
AllValues(v) ==
    analysis # null /\ \A i \in 1..8 : analysis.biomarkers[i].value = v

\* C12: a catalog whose eight values are all v, v in 0..100, has score v, the risk
\* and detected that v gives; 80 is Moderate and not detected, 60 High and detected,
\* 90 Low and not detected, 77 Moderate and detected.
EqualValuesScoreThemselves ==
    /\ \A v \in 0..100 :
          AllValues(v) =>
              /\ analysis.score = v
              /\ analysis.risk = (IF v < 70 THEN "High"
                                  ELSE IF v < 85 THEN "Moderate" ELSE "Low")
              /\ analysis.detected = (v < 78)
    /\ AllValues(80) => analysis.risk = "Moderate" /\ ~analysis.detected
    /\ AllValues(60) => analysis.risk = "High" /\ analysis.detected
    /\ AllValues(90) => analysis.risk = "Low" /\ ~analysis.detected
    /\ AllValues(77) => analysis.risk = "Moderate" /\ analysis.detected

\* the catalog of all 77: score 77, Moderate, detected
AllSeventySeven ==
    /\ AllValues(77)
    /\ analysis.score = 77
    /\ analysis.risk = "Moderate"
    /\ analysis.detected

\* C13: a recording session invokes analyzeAudio once (with no upload, the
\* invocations are the sessions'), and once a session has stopped its interval is
\* no longer live.
OneAnalysisPerRecording ==
    /\ uploadedFile = null => invocations <= recordings
    /\ ~isRecording => intervals = {}

\* one recording, no upload, two invocations of analyzeAudio
RecordingAnalysedTwice ==
    /\ uploadedFile = null
    /\ recordings = 1
    /\ invocations = 2

\* C14: recordingTime is between 0 and recordingDuration in every state.
RecordingTimeWithinDuration ==
    0 <= recordingTime /\ recordingTime <= recordingDuration

\* a shorter duration was chosen after a recording: recordingTime is above it
RecordingTimeAboveDuration ==
    /\ recordings = 1
    /\ recordingDuration = 15
    /\ recordingTime > recordingDuration
====
